---- MODULE Spec2Model ----
(***************************************************************************)
(* Network printer discovery and connection scripts of node-escpos:        *)
(*   examples/status-robust.js       testNetworkConnectivity, testConnection*)
(*   examples/ethernet-discovery.js  testThermalPrinter, pingRange,         *)
(*                                   discoverNetworkDevices, discoverAndTest*)
(*   examples/connect-by-ethernet.js connectByNetworkRange,                 *)
(*                                   connectWithFallback                    *)
(* One script runs per behaviour (prog); pc is its position.  The network,  *)
(* the child processes and the printer library are the environment: their   *)
(* answers are chosen nondeterministically where the code awaits them.      *)
(***************************************************************************)
EXTENDS Integers, Sequences, FiniteSets, TLC

VARIABLES
    prog,           \* which script or function runs ("status", "discover", ...)
    pc,             \* position of the script
    i,              \* loop index of the loop the script is in
    socks,          \* every net.Socket a probe created, in creation order
    ev,             \* the event delivered to the newest probe socket ("none" yet)
    reachable,      \* pingRange: the ips that answered the ping
    pinged,         \* pingRange: the ips a ping was run for, in order
    devices,        \* discoverNetworkDevices: the parsed arp-scan devices
    foundPrinters,  \* discoverAndTest: the printers found
    attempts,       \* every ThermalPrinter constructed, with how its use ended
    out,            \* the console lines the claims are about, in order
    args,           \* ethernet-discovery.js: process.argv.slice(2)
    env,            \* connectByEnvironment: PRINTER_IP, PRINTER_HOSTNAME, PRINTER_PORT
    resolved,       \* connectByIdentifier: the variable ip, <<>> while unset
    child,          \* the last result of execAsync('arp -a') or of nslookup
    late,           \* the last event emitted on a socket whose probe had settled
    status,         \* status-robust.js: the Buffer execute() returned, as bytes
    report          \* status-robust.js: the lines of the status interpretation

vars == <<prog, pc, i, socks, ev, reachable, pinged, devices, foundPrinters,
          attempts, out, args, env, resolved, child, late, status, report>>

----------------------------------------------------------------------------
(* Bounds *)

\* how many of the nine commonIPs of discoverAndTest the model scans
NCommon == 3
\* how many hosts of the range 80..120 of discoverAndTest the model sweeps
RangeSpan == 3
\* how many lines the arp-scan output has at most
MaxArpLines == 1
\* how many lines the output of `arp -a` has at most
MaxArpTable == 2
\* how many addresses nslookup answers with at most
MaxAnswers == 2
\* the probes one caller makes in the specification of the probe alone
MaxProbes == 3

----------------------------------------------------------------------------
(* Data of the scripts *)

IP(net, host) == [net |-> net, host |-> host]

AllCommonIPs ==
    << IP("192.168.1", 87),  IP("192.168.1", 100), IP("192.168.1", 101),
       IP("192.168.1", 200), IP("192.168.1", 201), IP("192.168.0", 100),
       IP("192.168.0", 101), IP("10.0.0", 100),    IP("10.0.0", 101) >>

Min(a, b) == IF a <= b THEN a ELSE b

commonIPs == SubSeq(AllCommonIPs, 1, Min(NCommon, Len(AllCommonIPs)))

PrinterPort == 9100
ThermalProbeTimeout == 3000
StatusProbeTimeout == 5000
StatusPrinterIP == IP("192.168.0", 105)

RangeBase == "192.168.1"
RangeStart == 80
RangeEndFull == 120
RangeEnd == Min(RangeStart + RangeSpan - 1, RangeEndFull)

Last(s) == s[Len(s)]

----------------------------------------------------------------------------
(* The probe: testNetworkConnectivity (status-robust.js) and                *)
(* testThermalPrinter (ethernet-discovery.js).  A socket record is the      *)
(* net.Socket together with the promise the probe returns.                  *)

\* what the network or the timer can deliver to a connecting socket
ErrorCodes == {"ECONNREFUSED", "ENOTFOUND", "EHOSTUNREACH"}
Events == {"connect", "timeout"} \cup ErrorCodes

\* the probe without its socket.setTimeout call: no timer is started
NewSocketNoTimer(host, port, timeout, method) ==
    [host |-> host, port |-> port, timeout |-> 0, method |-> method,
     st |-> "connecting", settled |-> FALSE, value |-> FALSE, written |-> 0]

\* new net.Socket(); socket.setTimeout(timeout); socket.connect(port, host)
NewSocket(host, port, timeout, method) ==
    [host |-> host, port |-> port, timeout |-> timeout, method |-> method,
     st |-> "connecting", settled |-> FALSE, value |-> FALSE, written |-> 0]

\* socket.destroy()
Destroy(s) == [s EXCEPT !.st = "destroyed"]

\* a promise that takes the value of every resolve call
ResolveOverwrites(s, v) == [s EXCEPT !.settled = TRUE, !.value = v]

\* resolve(v) of the probe's promise: only the first call settles it
Resolve(s, v) == IF s.settled THEN s ELSE [s EXCEPT !.settled = TRUE, !.value = v]

\* testNetworkConnectivity whose error handler does not resolve
testNetworkConnectivityErrorLost(s, e) ==
    CASE e = "connect" -> Resolve(Destroy(s), TRUE)
      [] e = "timeout" -> Resolve(Destroy(s), FALSE)
      [] OTHER         -> Destroy(s)

\* the three handlers of testNetworkConnectivity
testNetworkConnectivityOn(s, e) ==
    CASE e = "connect" -> Resolve(Destroy(s), TRUE)
      [] e = "timeout" -> Resolve(Destroy(s), FALSE)
      [] OTHER         -> Resolve(Destroy(s), FALSE)

\* testThermalPrinter whose timeout handler forgets socket.destroy()
testThermalPrinterLeaks(s, e) ==
    CASE e = "connect" -> Resolve(Destroy(s), TRUE)
      [] e = "timeout" -> Resolve(s, FALSE)
      [] OTHER         -> Resolve(Destroy(s), FALSE)

\* testThermalPrinter whose error handler resolves true
testThermalPrinterErrorTrue(s, e) ==
    CASE e = "connect" -> Resolve(Destroy(s), TRUE)
      [] e = "timeout" -> Resolve(Destroy(s), FALSE)
      [] OTHER         -> Resolve(Destroy(s), TRUE)

\* the three handlers of testThermalPrinter
testThermalPrinterOn(s, e) ==
    CASE e = "connect" -> Resolve(Destroy(s), TRUE)
      [] e = "timeout" -> Resolve(Destroy(s), FALSE)
      [] OTHER         -> Resolve(Destroy(s), FALSE)

Handle(s, e) ==
    IF s.method = "status" THEN testNetworkConnectivityOn(s, e)
    ELSE testThermalPrinterOn(s, e)

\* a socket timer that is never started
TimerNeverArmed(s) == FALSE

\* the timer socket.setTimeout(t) starts; t = 0 starts none
TimerArmed(s) == s.timeout > 0

InFlight == Len(socks) > 0 /\ Last(socks).st = "connecting"

StartProbe(host, port, timeout, method) ==
    /\ socks' = Append(socks, NewSocket(host, port, timeout, method))
    /\ ev' = "none"

Deliver(e) ==
    /\ InFlight
    /\ socks' = [socks EXCEPT ![Len(socks)] = Handle(@, e)]
    /\ ev' = e
    /\ UNCHANGED <<late, status, report, args, env, resolved, child, prog, pc, i, reachable, pinged, devices, foundPrinters,
                   attempts, out>>

\* the TCP handshake completes
NetConnect == Deliver("connect")

\* the connection attempt fails
NetError == \E code \in ErrorCodes : Deliver(code)

\* the socket's idle timer expires
TimerFires == /\ InFlight
              /\ TimerArmed(Last(socks))
              /\ Deliver("timeout")

NoLate == [sock |-> 0, e |-> "none"]

\* the listeners of a probe are never removed: an event emitted on a socket
\* whose promise is settled runs the same handler again
LateEvent ==
    \E k \in 1..Len(socks), e \in Events :
        /\ socks[k].settled
        /\ socks' = [socks EXCEPT ![k] = Handle(@, e)]
        /\ late' = [sock |-> k, e |-> e]
        /\ UNCHANGED <<status, report, args, env, resolved, child, prog, pc, i, ev,
                       reachable, pinged, devices, foundPrinters, attempts, out>>

\* the value the awaited probe gave
Settled == Len(socks) > 0 /\ Last(socks).settled
ProbeValue == Last(socks).value

----------------------------------------------------------------------------
(* The printer library (../node-thermal-printer), used through             *)
(* new ThermalPrinter, isPrinterConnected and execute.                      *)

\* how an awaited isPrinterConnected() can end for the calling code
ConnectOutcomes == {"true", "false", "throw"}
\* how an awaited execute() can end for the calling code
ExecuteOutcomes == {"ok", "throw"}

\* new ThermalPrinter({interface: tcp://host:port, options: {timeout}})
NewPrinter(name, host, port, timeout) ==
    [name |-> name, host |-> host, port |-> port, timeout |-> timeout,
     st |-> "connecting"]

SetLast(s, st) == [s EXCEPT ![Len(s)].st = st]

Line(msg, arg) == [msg |-> msg, arg |-> arg]

----------------------------------------------------------------------------
(* ethernet-discovery.js: pingRange, discoverNetworkDevices, discoverAndTest *)

\* the range expansion off by one
RangeIPOffByOne(baseIP, n) == IP(baseIP, n + 1)

\* `${baseIP}.${i}`
RangeIP(baseIP, n) == IP(baseIP, n)

\* the lines arp-scan can print: a device line "IP<ws>MAC<ws>Vendor" or any
\* other text (header, footer, blank)
ArpDeviceLines ==
    { [text |-> "device", ip |-> IP("192.168.1", 87),
       mac |-> "00:11:22:33:44:55", vendor |-> "Epson"],
      [text |-> "device", ip |-> IP("192.168.1", 50),
       mac |-> "AA:BB:CC:DD:EE:FF", vendor |-> "Unknown"] }
ArpOtherLines ==
    { [text |-> "other", ip |-> IP("", 0), mac |-> "", vendor |-> ""] }
ArpLines == ArpDeviceLines \cup ArpOtherLines

RECURSIVE SeqsUpTo(_, _)
SeqsUpTo(S, n) ==
    IF n = 0 THEN { <<>> }
    ELSE LET shorter == SeqsUpTo(S, n - 1)
         IN  shorter \cup { Append(q, x) : q \in shorter, x \in S }

ArpOutputs == SeqsUpTo(ArpLines, MaxArpLines)

\* line.match(/^(\d+\.\d+\.\d+\.\d+)\s+([0-9a-fA-F:]+)\s+(.+)$/)
ArpMatch(line) == line.text = "device"

\* the for loop of discoverNetworkDevices over the lines of stdout
RECURSIVE ParseArp(_)
ParseArp(lines) ==
    IF lines = <<>> THEN <<>>
    ELSE LET rest == ParseArp(SubSeq(lines, 1, Len(lines) - 1))
             line == Last(lines)
         IN  IF ArpMatch(line)
             THEN Append(rest, [ip |-> line.ip, mac |-> line.mac,
                                vendor |-> line.vendor])
             ELSE rest

\* a push for every probe, whatever it gave
PushFoundAlways(found, value, entry) == Append(found, entry)

\* foundPrinters.push({ ip, method }) when the probe gave true
PushFound(found, value, entry) == IF value THEN Append(found, entry) ELSE found

\* Method 1 without the await: the next probe is started at once
M1StartNoAwait ==
    /\ prog = "discover" /\ pc = "m1" /\ i <= Len(commonIPs)
    /\ StartProbe(commonIPs[i], PrinterPort, ThermalProbeTimeout, "common IP")
    /\ i' = i + 1
    /\ UNCHANGED <<late, status, report, args, env, resolved, child, prog, pc, reachable, pinged, devices,
                   foundPrinters, attempts, out>>

\* Method 1: for (const ip of commonIPs) await testThermalPrinter(ip)
M1Start ==
    /\ prog = "discover" /\ pc = "m1" /\ i <= Len(commonIPs)
    /\ StartProbe(commonIPs[i], PrinterPort, ThermalProbeTimeout, "common IP")
    /\ pc' = "m1_wait"
    /\ UNCHANGED <<late, status, report, args, env, resolved, child, prog, i, reachable, pinged, devices, foundPrinters, attempts, out>>

\* Method 1 leaving its loop at the first printer found (a break after push)
M1ResumeBreaks ==
    /\ prog = "discover" /\ pc = "m1_wait" /\ Settled
    /\ foundPrinters' = PushFound(foundPrinters, ProbeValue,
                           [ip |-> commonIPs[i], method |-> "common IP"])
    /\ i' = IF ProbeValue THEN Len(commonIPs) + 1 ELSE i + 1
    /\ pc' = "m1"
    /\ UNCHANGED <<late, status, report, args, env, resolved, child, prog, socks, ev, reachable, pinged, devices, attempts, out>>

M1Resume ==
    /\ prog = "discover" /\ pc = "m1_wait" /\ Settled
    /\ foundPrinters' = PushFound(foundPrinters, ProbeValue,
                           [ip |-> commonIPs[i], method |-> "common IP"])
    /\ i' = i + 1
    /\ pc' = "m1"
    /\ UNCHANGED <<late, status, report, args, env, resolved, child, prog, socks, ev, reachable, pinged, devices, attempts, out>>

\* the loop over commonIPs ends; pingRange('192.168.1', 80, 120) begins
M1Exit ==
    /\ prog = "discover" /\ pc = "m1" /\ i > Len(commonIPs)
    /\ pc' = "ping"
    /\ i' = RangeStart
    /\ UNCHANGED <<late, status, report, args, env, resolved, child, prog, socks, ev, reachable, pinged, devices, foundPrinters,
                   attempts, out>>

\* pingRange without its try/catch: a failing ping ends the script
PingOneNoCatch ==
    /\ prog = "discover" /\ pc = "ping" /\ i <= RangeEnd
    /\ \E ok \in BOOLEAN :
          /\ reachable' = IF ok THEN Append(reachable, RangeIP(RangeBase, i))
                          ELSE reachable
          /\ pc' = IF ok THEN pc ELSE "crashed"
    /\ pinged' = Append(pinged, RangeIP(RangeBase, i))
    /\ i' = i + 1
    /\ UNCHANGED <<late, status, report, args, env, resolved, child, prog, socks, ev, devices, foundPrinters,
                   attempts, out>>

\* pingRange: one iteration, await execAsync(`ping -c 1 -W 1 ${ip}`)
PingOne ==
    /\ prog = "discover" /\ pc = "ping" /\ i <= RangeEnd
    /\ \E ok \in BOOLEAN :
          reachable' = IF ok THEN Append(reachable, RangeIP(RangeBase, i))
                       ELSE reachable
    /\ pinged' = Append(pinged, RangeIP(RangeBase, i))
    /\ i' = i + 1
    /\ UNCHANGED <<late, status, report, args, env, resolved, child, prog, pc, socks, ev, devices, foundPrinters, attempts, out>>

\* pingRange returns reachable; Method 2 loops over it
PingExit ==
    /\ prog = "discover" /\ pc = "ping" /\ i > RangeEnd
    /\ pc' = "m2"
    /\ i' = 1
    /\ UNCHANGED <<late, status, report, args, env, resolved, child, prog, socks, ev, reachable, pinged, devices, foundPrinters,
                   attempts, out>>

\* Method 2: for (const ip of localIPs) await testThermalPrinter(ip)
M2Start ==
    /\ prog = "discover" /\ pc = "m2" /\ i <= Len(reachable)
    /\ StartProbe(reachable[i], PrinterPort, ThermalProbeTimeout, "network scan")
    /\ pc' = "m2_wait"
    /\ UNCHANGED <<late, status, report, args, env, resolved, child, prog, i, reachable, pinged, devices, foundPrinters, attempts, out>>

M2Resume ==
    /\ prog = "discover" /\ pc = "m2_wait" /\ Settled
    /\ foundPrinters' = PushFound(foundPrinters, ProbeValue,
                           [ip |-> reachable[i], method |-> "network scan"])
    /\ i' = i + 1
    /\ pc' = "m2"
    /\ UNCHANGED <<late, status, report, args, env, resolved, child, prog, socks, ev, reachable, pinged, devices, attempts, out>>

\* Method 3: discoverNetworkDevices() is called: execAsync('arp-scan --localnet')
M2Exit ==
    /\ prog = "discover" /\ pc = "m2" /\ i > Len(reachable)
    /\ pc' = "arp_wait"
    /\ UNCHANGED <<late, status, report, args, env, resolved, child, prog, i, socks, ev, reachable, pinged, devices,
                   foundPrinters, attempts, out>>

\* arp-scan ends: its output is parsed, or its failure is caught and [] returned
ArpScanReturn ==
    /\ prog = "discover" /\ pc = "arp_wait"
    /\ \/ /\ \E stdout \in ArpOutputs : devices' = ParseArp(stdout)
          /\ UNCHANGED out
       \/ /\ devices' = <<>>
          /\ out' = Append(out, Line("arp-scan not available, trying alternative methods...", ""))
    /\ pc' = "m3"
    /\ i' = 1
    /\ UNCHANGED <<late, status, report, args, env, resolved, child, prog, socks, ev, reachable, pinged, foundPrinters,
                   attempts>>

M3Start ==
    /\ prog = "discover" /\ pc = "m3" /\ i <= Len(devices)
    /\ StartProbe(devices[i].ip, PrinterPort, ThermalProbeTimeout, "device discovery")
    /\ pc' = "m3_wait"
    /\ UNCHANGED <<late, status, report, args, env, resolved, child, prog, i, reachable, pinged, devices, foundPrinters, attempts, out>>

M3Resume ==
    /\ prog = "discover" /\ pc = "m3_wait" /\ Settled
    /\ foundPrinters' = PushFound(foundPrinters, ProbeValue,
                           [ip |-> devices[i].ip, method |-> "device discovery"])
    /\ i' = i + 1
    /\ pc' = "m3"
    /\ UNCHANGED <<late, status, report, args, env, resolved, child, prog, socks, ev, reachable, pinged, devices, attempts, out>>

DiscoverConnectTimeout == 10000

\* Display results; with none found return, else connect to the first
Results ==
    /\ prog = "discover" /\ pc = "m3" /\ i > Len(devices)
    /\ IF foundPrinters = <<>>
       THEN /\ out' = Append(out, Line("No thermal printers found on the network", ""))
            /\ pc' = "done"
            /\ UNCHANGED attempts
       ELSE /\ attempts' = Append(attempts,
                 NewPrinter("first", foundPrinters[1].ip, PrinterPort,
                            DiscoverConnectTimeout))
            /\ pc' = "first_wait"
            /\ UNCHANGED out
    /\ UNCHANGED <<late, status, report, args, env, resolved, child, prog, i, socks, ev, reachable, pinged, devices, foundPrinters>>

\* await printer.isPrinterConnected() on the first printer found
FirstResume ==
    /\ prog = "discover" /\ pc = "first_wait"
    /\ \E o \in ConnectOutcomes :
          /\ attempts' = SetLast(attempts,
                 CASE o = "true" -> "connected"
                   [] o = "false" -> "notConnected"
                   [] OTHER -> "connectThrew")
          /\ out' = Append(out,
                 IF o = "true" THEN Line("Connection successful!", "")
                 ELSE Line("Connection failed", ""))
    /\ pc' = "done"
    /\ UNCHANGED <<late, status, report, args, env, resolved, child, prog, i, socks, ev, reachable, pinged, devices, foundPrinters>>

DiscoverNext ==
    \/ M1Start \/ M1Resume \/ M1Exit
    \/ PingOne \/ PingExit
    \/ M2Start \/ M2Resume \/ M2Exit \/ ArpScanReturn
    \/ M3Start \/ M3Resume
    \/ Results \/ FirstResume

----------------------------------------------------------------------------
(* status-robust.js: testConnection *)

StatusPrinterTimeout == 15000

\* Step 1: await testNetworkConnectivity(printerIP, printerPort, 5000)
S1Start ==
    /\ prog = "status" /\ pc = "s1"
    /\ StartProbe(StatusPrinterIP, PrinterPort, StatusProbeTimeout, "status")
    /\ pc' = "s1_wait"
    /\ UNCHANGED <<late, status, report, args, env, resolved, child, prog, i, reachable, pinged, devices, foundPrinters, attempts, out>>

\* if (!networkOk) return; else Step 2 and 3: new ThermalPrinter, isPrinterConnected
S1Resume ==
    /\ prog = "status" /\ pc = "s1_wait" /\ Settled
    /\ IF ~ProbeValue
       THEN /\ out' = Append(out, Line("Basic network connectivity failed!", ""))
            /\ pc' = "done"
            /\ UNCHANGED attempts
       ELSE /\ attempts' = Append(attempts,
                 NewPrinter("status", StatusPrinterIP, PrinterPort,
                            StatusPrinterTimeout))
            /\ pc' = "s3_wait"
            /\ UNCHANGED out
    /\ UNCHANGED <<late, status, report, args, env, resolved, child, prog, i, socks, ev, reachable, pinged, devices, foundPrinters>>

\* isPrinterConnected returned or threw; Step 4: getStatus, execute
S3Resume ==
    /\ prog = "status" /\ pc = "s3_wait"
    /\ \E o \in ConnectOutcomes :
          CASE o = "true" ->
                 /\ attempts' = SetLast(attempts, "statusRequested")
                 /\ out' = Append(out, Line("Printer connection test successful!", ""))
                 /\ pc' = "s4_wait"
            [] o = "false" ->
                 /\ attempts' = SetLast(attempts, "notConnected")
                 /\ out' = Append(out, Line("Printer connection test failed!", ""))
                 /\ pc' = "done"
            [] OTHER ->
                 /\ attempts' = SetLast(attempts, "connectThrew")
                 /\ out' = Append(out, Line("Printer operation failed:", ""))
                 /\ pc' = "done"
    /\ UNCHANGED <<late, status, report, args, env, resolved, child, prog, i, socks, ev, reachable, pinged, devices, foundPrinters>>

\* the Buffer execute({ waitForResponse: true }) can return: empty, or with a
\* first byte of any value
StatusReplies == { <<>> } \cup { << b >> : b \in 0..255 }

\* (statusByte & mask) for a mask of one bit: true when that bit is set
BitSet(statusByte, mask) == (statusByte \div mask) % 2 = 1

\* the object statusBits: key, mask, the text for a set bit and for a clear one
StatusFields ==
    <<
       [key |-> "Paper Status", mask |-> 4,
        on  |-> <<"P", "a", "p", "e", "r", " ", "N", "e", "a", "r", " ", "E", "n", "d">>,
        off |-> <<"P", "a", "p", "e", "r", " ", "O", "K">>],
       [key |-> "Drawer Status", mask |-> 8,
        on  |-> <<"D", "r", "a", "w", "e", "r", " ", "O", "p", "e", "n">>,
        off |-> <<"D", "r", "a", "w", "e", "r", " ", "C", "l", "o", "s", "e", "d">>],
       [key |-> "Online Status", mask |-> 16,
        on  |-> <<"O", "f", "f", "l", "i", "n", "e">>,
        off |-> <<"O", "n", "l", "i", "n", "e">>],
       [key |-> "Error Status", mask |-> 32,
        on  |-> <<"E", "r", "r", "o", "r">>,
        off |-> <<"N", "o", " ", "E", "r", "r", "o", "r">>],
       [key |-> "Paper Feed", mask |-> 64,
        on  |-> <<"P", "a", "p", "e", "r", " ", "F", "e", "e", "d", "i", "n", "g">>,
        off |-> <<"N", "o", "t", " ", "F", "e", "e", "d", "i", "n", "g">>],
       [key |-> "Ready", mask |-> 128,
        on  |-> <<"N", "o", "t", " ", "R", "e", "a", "d", "y">>,
        off |-> <<"R", "e", "a", "d", "y">>]
    >>

\* String.prototype.includes on strings as sequences of characters
Includes(value, part) ==
    \E k \in 0..(Len(value) - Len(part)) : SubSeq(value, k + 1, k + Len(part)) = part

\* value.includes('OK') || value.includes('Online') || value.includes('Ready')
IconOf(value) ==
    IF \/ Includes(value, <<"O", "K">>)
       \/ Includes(value, <<"O", "n", "l", "i", "n", "e">>)
       \/ Includes(value, <<"R", "e", "a", "d", "y">>)
    THEN "ok" ELSE "warning"

\* Step 5: one line per entry of statusBits, with its icon
Interpret(statusByte) ==
    [ k \in 1..Len(StatusFields) |->
        LET f == StatusFields[k]
            value == IF BitSet(statusByte, f.mask) THEN f.on ELSE f.off
        IN  [key |-> f.key, value |-> value, icon |-> IconOf(value)] ]

\* await printer.execute({ waitForResponse: true }) returned or threw; Step 5
S4Resume ==
    /\ prog = "status" /\ pc = "s4_wait"
    /\ \E o \in ExecuteOutcomes :
          IF o = "ok"
          THEN /\ attempts' = SetLast(attempts, "statusReceived")
               /\ out' = Append(out, Line("Printer status received successfully!", ""))
               /\ \E reply \in StatusReplies :
                     /\ status' = reply
                     /\ report' = IF Len(reply) > 0 THEN Interpret(reply[1]) ELSE <<>>
          ELSE /\ attempts' = SetLast(attempts, "executeThrew")
               /\ out' = Append(out, Line("Printer operation failed:", ""))
               /\ UNCHANGED <<status, report>>
    /\ pc' = "done"
    /\ UNCHANGED <<late, args, env, resolved, child, prog, i, socks, ev, reachable, pinged, devices, foundPrinters>>

StatusNext == S1Start \/ S1Resume \/ S3Resume \/ S4Resume

----------------------------------------------------------------------------
(* connect-by-ethernet.js: connectByNetworkRange *)

networkRanges ==
    << IP("192.168.1", 87), IP("192.168.1", 100), IP("192.168.1", 200),
       IP("192.168.0", 100), IP("10.0.0", 100) >>

RangeScanTimeout == 5000

\* for (const ip of networkRanges): new ThermalPrinter, await isPrinterConnected
RangeStartAttempt ==
    /\ prog = "range" /\ pc = "r" /\ i <= Len(networkRanges)
    /\ attempts' = Append(attempts,
          NewPrinter("scan", networkRanges[i], PrinterPort, RangeScanTimeout))
    /\ out' = Append(out, Line("Trying", networkRanges[i]))
    /\ pc' = "r_wait"
    /\ UNCHANGED <<late, status, report, args, env, resolved, child, prog, i, socks, ev, reachable, pinged, devices, foundPrinters>>

\* isPrinterConnected returned or threw
RangeConnResume ==
    /\ prog = "range" /\ pc = "r_wait"
    /\ \E o \in ConnectOutcomes :
          CASE o = "true" ->
                 /\ attempts' = SetLast(attempts, "printing")
                 /\ out' = Append(out, Line("Found printer at", networkRanges[i]))
                 /\ pc' = "r_exec"
                 /\ i' = i
            [] o = "false" ->
                 /\ attempts' = SetLast(attempts, "notConnected")
                 /\ UNCHANGED out
                 /\ pc' = "r"
                 /\ i' = i + 1
            [] OTHER ->             \* catch: continue to next IP
                 /\ attempts' = SetLast(attempts, "connectThrew")
                 /\ UNCHANGED out
                 /\ pc' = "r"
                 /\ i' = i + 1
    /\ UNCHANGED <<late, status, report, args, env, resolved, child, prog, socks, ev, reachable, pinged, devices, foundPrinters>>

\* await printer.execute() returned (return) or threw (catch: next IP)
RangeExecResume ==
    /\ prog = "range" /\ pc = "r_exec"
    /\ \E o \in ExecuteOutcomes :
          IF o = "ok"
          THEN /\ attempts' = SetLast(attempts, "printed")
               /\ out' = Append(out, Line("Test print completed!", networkRanges[i]))
               /\ pc' = "done"
               /\ i' = i
          ELSE /\ attempts' = SetLast(attempts, "printThrew")
               /\ UNCHANGED out
               /\ pc' = "r"
               /\ i' = i + 1
    /\ UNCHANGED <<late, status, report, args, env, resolved, child, prog, socks, ev, reachable, pinged, devices, foundPrinters>>

\* the loop ends without return
RangeExit ==
    /\ prog = "range" /\ pc = "r" /\ i > Len(networkRanges)
    /\ out' = Append(out, Line("No printers found in common ranges", IP("", 0)))
    /\ pc' = "done"
    /\ UNCHANGED <<late, status, report, args, env, resolved, child, prog, i, socks, ev, reachable, pinged, devices, foundPrinters,
                   attempts>>

RangeNext == RangeStartAttempt \/ RangeConnResume \/ RangeExecResume \/ RangeExit

----------------------------------------------------------------------------
(* connect-by-ethernet.js: connectWithFallback *)

Method(name, host, port, timeout) ==
    [name |-> name, host |-> host, port |-> port, timeout |-> timeout]

connectionMethods ==
    << Method("Primary IP", "192.168.1.87", 9100, 10000),
       Method("Alternative IP", "192.168.1.100", 9100, 10000),
       Method("Hostname", "thermal-printer.local", 9100, 10000) >>

\* the printer constructed without options.timeout: the library's 3 s default
FallbackPrinterDefaultTimeout(method) ==
    NewPrinter(method.name, method.host, method.port, 3000)

\* new ThermalPrinter({interface: method.interface,
\*                     options: {timeout: method.timeout}})
FallbackPrinter(method) ==
    NewPrinter(method.name, method.host, method.port, method.timeout)

\* for (const method of connectionMethods): new ThermalPrinter, isPrinterConnected
FallbackStartAttempt ==
    /\ prog = "fallback" /\ pc = "f" /\ i <= Len(connectionMethods)
    /\ attempts' = Append(attempts, FallbackPrinter(connectionMethods[i]))
    /\ out' = Append(out, Line("Trying", connectionMethods[i].name))
    /\ pc' = "f_wait"
    /\ UNCHANGED <<late, status, report, args, env, resolved, child, prog, i, socks, ev, reachable, pinged, devices, foundPrinters>>

\* connectWithFallback returning when isPrinterConnected gives false
FallbackConnResumeReturns ==
    /\ prog = "fallback" /\ pc = "f_wait"
    /\ \E o \in ConnectOutcomes :
          CASE o = "true" ->
                 /\ attempts' = SetLast(attempts, "printing")
                 /\ out' = Append(out, Line("Connected via", connectionMethods[i].name))
                 /\ pc' = "f_exec"
                 /\ i' = i
            [] o = "false" ->
                 /\ attempts' = SetLast(attempts, "notConnected")
                 /\ UNCHANGED out
                 /\ pc' = "done"
                 /\ i' = i
            [] OTHER ->
                 /\ attempts' = SetLast(attempts, "connectThrew")
                 /\ out' = Append(out, Line("failed", connectionMethods[i].name))
                 /\ pc' = "f"
                 /\ i' = i + 1
    /\ UNCHANGED <<late, status, report, args, env, resolved, child, prog, socks, ev, reachable, pinged, devices, foundPrinters>>

\* isPrinterConnected returned or threw
FallbackConnResume ==
    /\ prog = "fallback" /\ pc = "f_wait"
    /\ \E o \in ConnectOutcomes :
          CASE o = "true" ->
                 /\ attempts' = SetLast(attempts, "printing")
                 /\ out' = Append(out, Line("Connected via", connectionMethods[i].name))
                 /\ pc' = "f_exec"
                 /\ i' = i
            [] o = "false" ->
                 /\ attempts' = SetLast(attempts, "notConnected")
                 /\ UNCHANGED out
                 /\ pc' = "f"
                 /\ i' = i + 1
            [] OTHER ->             \* catch: log `${method.name} failed`
                 /\ attempts' = SetLast(attempts, "connectThrew")
                 /\ out' = Append(out, Line("failed", connectionMethods[i].name))
                 /\ pc' = "f"
                 /\ i' = i + 1
    /\ UNCHANGED <<late, status, report, args, env, resolved, child, prog, socks, ev, reachable, pinged, devices, foundPrinters>>

\* await printer.execute() returned (return) or threw (catch: next method)
FallbackExecResume ==
    /\ prog = "fallback" /\ pc = "f_exec"
    /\ \E o \in ExecuteOutcomes :
          IF o = "ok"
          THEN /\ attempts' = SetLast(attempts, "printed")
               /\ out' = Append(out, Line("Test print completed!",
                                          connectionMethods[i].name))
               /\ pc' = "done"
               /\ i' = i
          ELSE /\ attempts' = SetLast(attempts, "printThrew")
               /\ out' = Append(out, Line("failed", connectionMethods[i].name))
               /\ pc' = "f"
               /\ i' = i + 1
    /\ UNCHANGED <<late, status, report, args, env, resolved, child, prog, socks, ev, reachable, pinged, devices, foundPrinters>>

\* the loop ends without return
FallbackExit ==
    /\ prog = "fallback" /\ pc = "f" /\ i > Len(connectionMethods)
    /\ out' = Append(out, Line("All connection methods failed", ""))
    /\ pc' = "done"
    /\ UNCHANGED <<late, status, report, args, env, resolved, child, prog, i, socks, ev, reachable, pinged, devices, foundPrinters,
                   attempts>>

FallbackNext ==
    FallbackStartAttempt \/ FallbackConnResume \/ FallbackExecResume \/ FallbackExit

----------------------------------------------------------------------------
(* ethernet-discovery.js: connectByMAC, connectByHostname,                  *)
(* connectByIdentifier and the command line                                 *)

\* Strings the scripts handle as text: a dotted address is its octets, a
\* hardware address its characters, a host name itself.
IPText(o)   == [kind |-> "ip",   octets |-> o,    chars |-> <<>>, name |-> ""]
IP6Text(n)  == [kind |-> "ip6",  octets |-> <<>>, chars |-> <<>>, name |-> n]
MacText(c)  == [kind |-> "mac",  octets |-> <<>>, chars |-> c,    name |-> ""]
NameText(n) == [kind |-> "name", octets |-> <<>>, chars |-> <<>>, name |-> n]

LowerChar(c) ==
    CASE c = "A" -> "a" [] c = "B" -> "b" [] c = "C" -> "c" [] c = "D" -> "d"
      [] OTHER -> c

\* String.prototype.toLowerCase
ToLowerCase(t) == [t EXCEPT !.chars = [k \in DOMAIN @ |-> LowerChar(@[k])]]

\* the lines `arp -a` can print: "? (IP) at MAC [ether] on eth0", or a line
\* the pattern does not match (an incomplete entry, a blank line)
ArpTableIPs == { IPText(<<192, 168, 1, 87>>), IPText(<<192, 168, 1, 50>>) }
ArpTableMacs == { MacText(<<"a", "b">>), MacText(<<"A", "B">>), MacText(<<"c", "d">>) }
ArpTableLines ==
    { [text |-> "entry", ip |-> a, mac |-> m] : a \in ArpTableIPs, m \in ArpTableMacs }
    \cup { [text |-> "other", ip |-> IPText(<<>>), mac |-> MacText(<<>>)] }
ArpTables == SeqsUpTo(ArpTableLines, MaxArpTable)

\* line.match(/\((\d+\.\d+\.\d+\.\d+)\) at ([0-9a-fA-F:]+)/)
ArpTableMatch(line) == line.text = "entry"

Ok(v)   == [ok |-> TRUE,  value |-> <<v>>, error |-> ""]
Err(m)  == [ok |-> FALSE, value |-> <<>>,  error |-> m]

NoRun == [ok |-> FALSE, stdout |-> <<>>]
Run(stdout) == [ok |-> TRUE, stdout |-> stdout]

\* how execAsync('arp -a') can end: the command fails, or prints a table
ArpRuns == { NoRun } \cup { Run(t) : t \in ArpTables }

\* connectByMAC comparing the addresses as they are written
RECURSIVE FirstMacMatchExact(_, _)
FirstMacMatchExact(lines, mac) ==
    IF lines = <<>> THEN <<>>
    ELSE IF ArpTableMatch(Head(lines)) /\ Head(lines).mac = mac
         THEN << Head(lines).ip >>
         ELSE FirstMacMatchExact(Tail(lines), mac)

\* the for loop of connectByMAC: the ip of the first line whose address,
\* lower-cased, equals the lower-cased macAddress
RECURSIVE FirstMacMatch(_, _)
FirstMacMatch(lines, mac) ==
    IF lines = <<>> THEN <<>>
    ELSE IF ArpTableMatch(Head(lines))
            /\ ToLowerCase(Head(lines).mac) = ToLowerCase(mac)
         THEN << Head(lines).ip >>
         ELSE FirstMacMatch(Tail(lines), mac)

connectByMAC(run, macAddress) ==
    IF ~run.ok THEN Err("Could not resolve MAC address: command failed")
    ELSE LET m == FirstMacMatch(run.stdout, macAddress)
         IN  IF m = <<>>
             THEN Err("Could not resolve MAC address: MAC address not found in ARP table")
             ELSE Ok(m[1])

\* what nslookup prints: the name server it asked ("Server:" and "Address:"
\* lines), then a "Name:" and an "Address:" line per address of the host
NsLine(label, addr, about) == [label |-> label, addr |-> addr, about |-> about]
NameServers == { IPText(<<192, 168, 1, 1>>), IP6Text("fe80::1") }
NsHeaders ==
    { <<>> } \cup
    { << NsLine("Server", srv, "server"), NsLine("Address", srv, "server") >> :
         srv \in NameServers }
AnswerAddrs == { IPText(<<10, 0, 0, 5>>), IPText(<<10, 0, 0, 6>>), IP6Text("2001:db8::5") }

RECURSIVE AnswerLines(_, _)
AnswerLines(hostname, addrs) ==
    IF addrs = <<>> THEN <<>>
    ELSE << NsLine("Name", hostname, "answer"),
            NsLine("Address", Head(addrs), "answer") >>
         \o AnswerLines(hostname, Tail(addrs))

\* how execAsync(`nslookup ${hostname}`) can end: nslookup fails (no such
\* name, no server), or prints its report
NsRuns(hostname) ==
    { NoRun } \cup
    { Run(h \o AnswerLines(hostname, a)) :
         h \in NsHeaders, a \in SeqsUpTo(AnswerAddrs, MaxAnswers) }

\* one place where /Address:\s*(\d+\.\d+\.\d+\.\d+)/ matches
NsMatch(line) == line.label = "Address" /\ line.addr.kind = "ip"

\* stdout.match(...): the first match in the output
RECURSIVE FirstAddress(_)
FirstAddress(lines) ==
    IF lines = <<>> THEN <<>>
    ELSE IF NsMatch(Head(lines)) THEN << Head(lines).addr >>
         ELSE FirstAddress(Tail(lines))

connectByHostname(run) ==
    IF ~run.ok THEN Err("Could not resolve hostname: command failed")
    ELSE LET m == FirstAddress(run.stdout)
         IN  IF m = <<>>
             THEN Err("Could not resolve hostname: Hostname not found")
             ELSE Ok(m[1])

\* connectByIdentifier(identifier, type = 'ip')
Identifier == args[1]
TypeOf(a) == IF Len(a) >= 2 THEN a[2] ELSE "ip"

\* case 'ip' with a fixed address in place of the identifier
ResolveLiteralDefault(identifier) == IPText(<<192, 168, 1, 87>>)

\* case 'ip': ip = identifier
ResolveLiteral(identifier) == identifier

IdentifierTimeout == 10000

\* console.log(`Resolved IP`); new ThermalPrinter; await isPrinterConnected()
IdConnect(address) ==
    /\ resolved' = << address >>
    /\ attempts' = Append(attempts,
          NewPrinter("identifier", address, PrinterPort, IdentifierTimeout))
    /\ out' = Append(out, Line("Resolved IP:", ""))
    /\ pc' = "id_wait"

\* catch (error): console.error(`Connection failed: ${error.message}`)
IdFail(message) ==
    /\ out' = Append(out, Line("Connection failed:", message))
    /\ pc' = "done"
    /\ UNCHANGED <<resolved, attempts>>

\* the switch on type
IdStart ==
    /\ prog = "identifier" /\ pc = "id"
    /\ CASE TypeOf(args) = "mac" ->
              /\ pc' = "mac_wait"
              /\ UNCHANGED <<resolved, attempts, out>>
         [] TypeOf(args) = "hostname" ->
              /\ pc' = "ns_wait"
              /\ UNCHANGED <<resolved, attempts, out>>
         [] TypeOf(args) = "ip" -> IdConnect(ResolveLiteral(Identifier))
         [] OTHER -> IdFail("Unknown identifier type")
    /\ UNCHANGED <<late, status, report, args, env, child, prog, i, socks, ev, reachable, pinged, devices,
                   foundPrinters>>

\* ip = await connectByMAC(identifier)
MacReturn ==
    /\ prog = "identifier" /\ pc = "mac_wait"
    /\ \E run \in ArpRuns :
          /\ child' = run
          /\ LET r == connectByMAC(run, Identifier)
             IN  IF r.ok THEN IdConnect(r.value[1]) ELSE IdFail(r.error)
    /\ UNCHANGED <<late, status, report, args, env, prog, i, socks, ev, reachable, pinged, devices,
                   foundPrinters>>

\* ip = await connectByHostname(identifier)
NsReturn ==
    /\ prog = "identifier" /\ pc = "ns_wait"
    /\ \E run \in NsRuns(Identifier) :
          /\ child' = run
          /\ LET r == connectByHostname(run)
             IN  IF r.ok THEN IdConnect(r.value[1]) ELSE IdFail(r.error)
    /\ UNCHANGED <<late, status, report, args, env, prog, i, socks, ev, reachable, pinged, devices,
                   foundPrinters>>

\* isPrinterConnected returned or threw
IdConnResume ==
    /\ prog = "identifier" /\ pc = "id_wait"
    /\ \E o \in ConnectOutcomes :
          CASE o = "true" ->
                 /\ attempts' = SetLast(attempts, "printing")
                 /\ out' = Append(out, Line("Connection successful!", ""))
                 /\ pc' = "id_exec"
            [] o = "false" ->
                 /\ attempts' = SetLast(attempts, "notConnected")
                 /\ out' = Append(out, Line("Connection failed", ""))
                 /\ pc' = "done"
            [] OTHER ->
                 /\ attempts' = SetLast(attempts, "connectThrew")
                 /\ out' = Append(out, Line("Connection failed:", "isPrinterConnected"))
                 /\ pc' = "done"
    /\ UNCHANGED <<late, status, report, args, env, resolved, child, prog, i, socks, ev, reachable, pinged,
                   devices, foundPrinters>>

\* await printer.execute() returned or threw
IdExecResume ==
    /\ prog = "identifier" /\ pc = "id_exec"
    /\ \E o \in ExecuteOutcomes :
          IF o = "ok"
          THEN /\ attempts' = SetLast(attempts, "printed")
               /\ out' = Append(out, Line("Test print completed!", ""))
          ELSE /\ attempts' = SetLast(attempts, "printThrew")
               /\ out' = Append(out, Line("Connection failed:", "execute"))
    /\ pc' = "done"
    /\ UNCHANGED <<late, status, report, args, env, resolved, child, prog, i, socks, ev, reachable, pinged,
                   devices, foundPrinters>>

IdentifierNext == IdStart \/ MacReturn \/ NsReturn \/ IdConnResume \/ IdExecResume

\* the command lines the model runs ethernet-discovery.js with
ArgLists ==
    { <<>>,
      << IPText(<<192, 168, 1, 87>>) >>,
      << IPText(<<10, 0, 0, 5>>), "ip" >>,
      << IPText(<<10, 0, 0, 999>>), "ip" >>,
      << MacText(<<"a", "b">>), "mac" >>,
      << MacText(<<"A", "b">>), "mac" >>,
      << MacText(<<"C", "D">>), "mac" >>,
      << MacText(<<"e", "f">>), "mac" >>,
      << NameText("thermal-printer.local"), "hostname" >>,
      << NameText("thermal-printer.local"), "serial" >> }

\* if (require.main === module): the dispatch on args.length
Dispatch ==
    /\ prog = "cli" /\ pc = "main"
    /\ IF Len(args) = 0
       THEN /\ prog' = "discover" /\ pc' = "m1" /\ UNCHANGED out
       ELSE IF Len(args) >= 2
       THEN /\ prog' = "identifier" /\ pc' = "id" /\ UNCHANGED out
       ELSE /\ out' = Append(out, Line("Usage:", ""))
            /\ pc' = "done"
            /\ UNCHANGED prog
    /\ UNCHANGED <<late, status, report, args, env, resolved, child, i, socks, ev, reachable, pinged, devices,
                   foundPrinters, attempts>>

----------------------------------------------------------------------------
(* connect-by-ethernet.js: connectByEnvironment *)

\* an environment variable: unset (or empty), or set to a value
Unset(v) == [set |-> FALSE, val |-> v]
SetTo(v) == [set |-> TRUE, val |-> v]

\* the environments the model runs connectByEnvironment in
EnvChoices ==
    [ ip       : { Unset(IPText(<<>>)), SetTo(IPText(<<10, 0, 0, 5>>)) },
      hostname : { Unset(NameText("")), SetTo(NameText("thermal-printer.local")) },
      port     : { Unset(0), SetTo(9100), SetTo(70000) } ]

NoEnv == [ip |-> Unset(IPText(<<>>)), hostname |-> Unset(NameText("")),
          port |-> Unset(0)]

\* process.env.PRINTER_IP || '192.168.1.87'
EnvIP(e) == IF e.ip.set THEN e.ip.val ELSE IPText(<<192, 168, 1, 87>>)

\* PRINTER_PORT used without its default
EnvPortNoDefault(e) == e.port.val

\* process.env.PRINTER_PORT || '9100'
EnvPort(e) == IF e.port.set THEN e.port.val ELSE 9100

\* printerHostname ? `tcp://${printerHostname}:..` : `tcp://${printerIP}:..`
EnvHost(e) == IF e.hostname.set THEN e.hostname.val ELSE EnvIP(e)

EnvTimeout == 10000

\* new ThermalPrinter({interface}); await printer.isPrinterConnected()
EnvStart ==
    /\ prog = "env" /\ pc = "e"
    /\ attempts' = Append(attempts,
          NewPrinter("env", EnvHost(env), EnvPort(env), EnvTimeout))
    /\ out' = Append(out, Line("Using interface:", ""))
    /\ pc' = "e_wait"
    /\ UNCHANGED <<late, status, report, args, env, resolved, child, prog, i, socks, ev, reachable, pinged,
                   devices, foundPrinters>>

\* isPrinterConnected returned or threw
EnvConnResume ==
    /\ prog = "env" /\ pc = "e_wait"
    /\ \E o \in ConnectOutcomes :
          CASE o = "true" ->
                 /\ attempts' = SetLast(attempts, "printing")
                 /\ out' = Append(out, Line("Connected via environment variables!", ""))
                 /\ pc' = "e_exec"
            [] o = "false" ->
                 /\ attempts' = SetLast(attempts, "notConnected")
                 /\ out' = Append(out, Line("Connection failed", ""))
                 /\ pc' = "done"
            [] OTHER ->
                 /\ attempts' = SetLast(attempts, "connectThrew")
                 /\ out' = Append(out, Line("Connection failed:", "isPrinterConnected"))
                 /\ pc' = "done"
    /\ UNCHANGED <<late, status, report, args, env, resolved, child, prog, i, socks, ev, reachable, pinged,
                   devices, foundPrinters>>

\* await printer.execute() returned or threw
EnvExecResume ==
    /\ prog = "env" /\ pc = "e_exec"
    /\ \E o \in ExecuteOutcomes :
          IF o = "ok"
          THEN /\ attempts' = SetLast(attempts, "printed")
               /\ out' = Append(out, Line("Test print completed!", ""))
          ELSE /\ attempts' = SetLast(attempts, "printThrew")
               /\ out' = Append(out, Line("Connection failed:", "execute"))
    /\ pc' = "done"
    /\ UNCHANGED <<late, status, report, args, env, resolved, child, prog, i, socks, ev, reachable, pinged,
                   devices, foundPrinters>>

EnvNext == EnvStart \/ EnvConnResume \/ EnvExecResume

----------------------------------------------------------------------------
(* status.js: testConnection *)

StatusJsTimeout == 10000

\* new ThermalPrinter; await printer.isPrinterConnected()
QStart ==
    /\ prog = "statusjs" /\ pc = "q"
    /\ attempts' = Append(attempts,
          NewPrinter("status.js", StatusPrinterIP, PrinterPort, StatusJsTimeout))
    /\ out' = Append(out, Line("Testing printer connection...", ""))
    /\ pc' = "q_wait"
    /\ UNCHANGED <<late, status, report, args, env, resolved, child, prog, i, socks, ev, reachable, pinged,
                   devices, foundPrinters>>

\* status.js requesting the status whatever isPrinterConnected returned
QConnResumeNoTest ==
    /\ prog = "statusjs" /\ pc = "q_wait"
    /\ \E o \in ConnectOutcomes :
          IF o = "throw"
          THEN /\ attempts' = SetLast(attempts, "connectThrew")
               /\ out' = Append(out, Line("Connection failed:", ""))
               /\ pc' = "done"
          ELSE /\ attempts' = SetLast(attempts, "statusRequested")
               /\ out' = Append(out, Line("Requesting printer status...", ""))
               /\ pc' = "q_exec"
    /\ UNCHANGED <<late, status, report, args, env, resolved, child, prog, i, socks, ev, reachable, pinged,
                   devices, foundPrinters>>

\* if (!isConnected) return; else printer.getStatus(); await printer.execute(..)
QConnResume ==
    /\ prog = "statusjs" /\ pc = "q_wait"
    /\ \E o \in ConnectOutcomes :
          CASE o = "true" ->
                 /\ attempts' = SetLast(attempts, "statusRequested")
                 /\ out' = out \o << Line("Printer is reachable!", ""),
                                     Line("Requesting printer status...", "") >>
                 /\ pc' = "q_exec"
            [] o = "false" ->
                 /\ attempts' = SetLast(attempts, "notConnected")
                 /\ out' = Append(out, Line("Printer is not reachable.", ""))
                 /\ pc' = "done"
            [] OTHER ->
                 /\ attempts' = SetLast(attempts, "connectThrew")
                 /\ out' = Append(out, Line("Connection failed:", ""))
                 /\ pc' = "done"
    /\ UNCHANGED <<late, status, report, args, env, resolved, child, prog, i, socks, ev, reachable, pinged,
                   devices, foundPrinters>>

\* await printer.execute({ waitForResponse: true }) returned or threw
QExecResume ==
    /\ prog = "statusjs" /\ pc = "q_exec"
    /\ \E o \in ExecuteOutcomes :
          IF o = "ok"
          THEN /\ attempts' = SetLast(attempts, "statusReceived")
               /\ out' = Append(out, Line("Printer status received:", ""))
          ELSE /\ attempts' = SetLast(attempts, "executeThrew")
               /\ out' = Append(out, Line("Connection failed:", ""))
    /\ pc' = "done"
    /\ UNCHANGED <<late, status, report, args, env, resolved, child, prog, i, socks, ev, reachable, pinged,
                   devices, foundPrinters>>

StatusJsNext == QStart \/ QConnResume \/ QExecResume

----------------------------------------------------------------------------
(* The specification *)

Progs == {"status", "statusjs", "discover", "range", "fallback", "env", "cli"}

EntryPoint(p) ==
    CASE p = "status"   -> "s1"
      [] p = "discover" -> "m1"
      [] p = "range"    -> "r"
      [] p = "fallback" -> "f"
      [] p = "statusjs" -> "q"
      [] p = "env"      -> "e"
      [] p = "cli"      -> "main"

Init ==
    /\ prog \in Progs
    /\ pc = EntryPoint(prog)
    /\ i = 1
    /\ socks = <<>>
    /\ ev = "none"
    /\ reachable = <<>>
    /\ pinged = <<>>
    /\ devices = <<>>
    /\ foundPrinters = <<>>
    /\ attempts = <<>>
    /\ out = <<>>
    /\ args \in (IF prog = "cli" THEN ArgLists ELSE { <<>> })
    /\ env \in (IF prog = "env" THEN EnvChoices ELSE { NoEnv })
    /\ resolved = <<>>
    /\ child = NoRun
    /\ late = NoLate
    /\ status = <<>>
    /\ report = <<>>

Next ==
    \/ NetConnect \/ NetError \/ TimerFires
    \/ StatusNext
    \/ DiscoverNext
    \/ RangeNext
    \/ FallbackNext
    \/ EnvNext
    \/ StatusJsNext
    \/ Dispatch
    \/ IdentifierNext

Spec == Init /\ [][Next]_vars

\* the child processes execAsync is awaited for without a bound of their own
ChildReturns == ArpScanReturn \/ MacReturn \/ NsReturn
AwaitingChild == pc \in {"arp_wait", "mac_wait", "ns_wait"}

\* the steps that are the scripts' own, the printer library's (it has its
\* options.timeout) and ping's (-c 1 -W 1)
ScriptSteps ==
    \/ StatusNext \/ StatusJsNext \/ RangeNext \/ FallbackNext \/ EnvNext \/ Dispatch
    \/ M1Start \/ M1Resume \/ M1Exit \/ PingOne \/ PingExit
    \/ M2Start \/ M2Resume \/ M2Exit \/ M3Start \/ M3Resume \/ Results \/ FirstResume
    \/ IdStart \/ IdConnResume \/ IdExecResume

\* The timer of socket.setTimeout fires unless another event came first; the
\* scripts' own steps run whenever they can.  The network owes nothing, and
\* neither do arp-scan, arp and nslookup.
FairSpec ==
    /\ Spec
    /\ WF_vars(TimerFires)
    /\ WF_vars(ScriptSteps)

----------------------------------------------------------------------------
(* The probe alone: a caller that awaits one probe after the other, with    *)
(* every event the socket can emit, also after the probe has settled.       *)

ProbeInit ==
    /\ prog = "probe" /\ pc = "idle"
    /\ i = 1
    /\ socks = <<>> /\ ev = "none" /\ late = NoLate
    /\ reachable = <<>> /\ pinged = <<>> /\ devices = <<>>
    /\ foundPrinters = <<>> /\ attempts = <<>> /\ out = <<>>
    /\ args = <<>> /\ env = NoEnv /\ resolved = <<>> /\ child = NoRun
    /\ status = <<>> /\ report = <<>>

\* await testNetworkConnectivity(..) or await testThermalPrinter(..)
ProbeCall ==
    /\ prog = "probe" /\ pc = "idle" /\ Len(socks) < MaxProbes
    /\ \/ StartProbe(StatusPrinterIP, PrinterPort, StatusProbeTimeout, "status")
       \/ StartProbe(commonIPs[1], PrinterPort, ThermalProbeTimeout, "common IP")
    /\ pc' = "await"
    /\ UNCHANGED <<late, status, report, args, env, resolved, child, prog, i, reachable,
                   pinged, devices, foundPrinters, attempts, out>>

\* the await resumes with the value of the promise
ProbeReturn ==
    /\ prog = "probe" /\ pc = "await" /\ Settled
    /\ foundPrinters' = Append(foundPrinters, ProbeValue)
    /\ pc' = "idle"
    /\ UNCHANGED <<late, status, report, args, env, resolved, child, prog, i, socks, ev,
                   reachable, pinged, devices, attempts, out>>

ProbeNext ==
    \/ ProbeCall \/ ProbeReturn
    \/ NetConnect \/ NetError \/ TimerFires
    \/ LateEvent

ProbeSpec == ProbeInit /\ [][ProbeNext]_vars

----------------------------------------------------------------------------
(* Properties *)

\* an attempt whose isPrinterConnected returned true
Reachable(a) == a.st \in {"printing", "printed", "printThrew"}
\* an attempt that ended without a connection
Unreachable(a) == a.st \in {"notConnected", "connectThrew"}
\* an attempt that has reached its end
Terminal(a) == a.st \notin {"connecting", "printing"}

CountMsg(m) == Len(SelectSeq(out, LAMBDA l : l.msg = m))
Said(m) == \E k \in 1..Len(out) : out[k].msg = m

\* C1: connectWithFallback stops at the first entry found reachable: no entry
\* after an entry whose isPrinterConnected returned true is ever attempted,
\* whatever happens afterwards on that entry, and the exhausted outcome is not
\* reported once an entry was reachable.
C1_StopsAtFirstReachable ==
    prog = "fallback" =>
        /\ \A k \in 1..(Len(attempts) - 1) : ~Reachable(attempts[k])
        /\ (\E k \in 1..Len(attempts) : Reachable(attempts[k]))
              => ~Said("All connection methods failed")

\* C2: every probe eventually returns: a socket that is connecting leads to
\* its promise being settled, whatever the network does.
C2_ProbeReturns == InFlight ~> Settled

\* C2 witness: a probe whose connection neither succeeded nor failed was ended
\* by the timer and gave false.
C2_TimedOutProbe == Settled /\ ev = "timeout" /\ ~ProbeValue

OpenSockets == { k \in 1..Len(socks) : socks[k].st # "destroyed" }

\* C3: a probe that has returned has destroyed its socket and wrote nothing to
\* it; every socket but the one being awaited is destroyed, and none is open
\* when the script has ended.
C3_SocketsReleased ==
    /\ \A k \in 1..Len(socks) :
          /\ socks[k].settled => socks[k].st = "destroyed"
          /\ socks[k].written = 0
    /\ OpenSockets \subseteq {Len(socks)}
    /\ pc = "done" => OpenSockets = {}

\* C3 witness: a script has ended after at least three probes, one ended by
\* connect, one that gave false and one ended by the timer.
C3_ProbesOnEveryPath ==
    /\ pc = "done" /\ Len(socks) >= 3
    /\ socks[1].value
    /\ ev = "timeout"
    /\ ~socks[2].value

\* C4: connectByNetworkRange reports 'No printers found' only when no
\* candidate was reachable, and ends with a reachable candidate otherwise.
C4_FindsReachable ==
    (prog = "range" /\ pc = "done") =>
        /\ Said("No printers found in common ranges")
              <=> (\A k \in 1..Len(attempts) : ~Reachable(attempts[k]))
        /\ (\E k \in 1..Len(attempts) : Reachable(attempts[k]))
              => Reachable(Last(attempts))

\* C5: connectByNetworkRange starts no probe after a probe gave Reachable.
C5_NoProbeAfterReachable ==
    prog = "range" =>
        \A k \in 1..Len(attempts) : Reachable(attempts[k]) => k = Len(attempts)

CommonProbes == SelectSeq(socks, LAMBDA s : s.method = "common IP")

\* C6: Method 1 of discoverAndTest probes the candidates of commonIPs one by
\* one in list order, each exactly once on port 9100, and has a result for
\* every one of them when the loop has ended.
C6_OneResultPerCandidate ==
    prog = "discover" =>
        /\ Len(CommonProbes) <= Len(commonIPs)
        /\ \A k \in 1..Len(CommonProbes) :
              /\ CommonProbes[k].host = commonIPs[k]
              /\ CommonProbes[k].port = PrinterPort
        /\ pc \notin {"m1", "m1_wait"} =>
              /\ Len(CommonProbes) = Len(commonIPs)
              /\ \A k \in 1..Len(CommonProbes) : CommonProbes[k].settled

\* C6 witness: Method 1 has ended with a reachable and an unreachable candidate.
C6_ScanDone ==
    /\ prog = "discover" /\ pc = "ping"
    /\ CommonProbes[1].value /\ ~CommonProbes[2].value

ScanProbes == SelectSeq(socks, LAMBDA s : s.method = "network scan")
SweepHosts == [k \in 1..(RangeEnd - RangeStart + 1) |->
                  IP(RangeBase, RangeStart + k - 1)]
HostsOf(s) == [k \in 1..Len(s) |-> s[k].host]
SweepOver ==
    prog = "discover" /\ pc \in {"arp_wait", "m3", "m3_wait", "first_wait", "done"}

\* C7 as stated: the sweep yields a port probe result for every host of
\* base.start .. base.end, in ascending order.
C7_ProbeForEveryHost == SweepOver => HostsOf(ScanProbes) = SweepHosts

\* C7 amended: pingRange pings exactly base.start .. base.end in ascending
\* order, one ping each; the port-9100 probes are made for exactly the hosts
\* that answered the ping, in that order, each with a result.
C7_PingAllProbeAnswering ==
    prog = "discover" =>
        /\ \A k \in 1..Len(pinged) : pinged[k] = SweepHosts[k]
        /\ pc \notin {"m1", "m1_wait", "ping"} => pinged = SweepHosts
        /\ \A k \in 1..Len(ScanProbes) :
              /\ ScanProbes[k].host = reachable[k]
              /\ ScanProbes[k].port = PrinterPort
        /\ \A k \in 1..Len(reachable) : \E j \in 1..Len(pinged) :
              /\ reachable[k] = pinged[j]
              /\ k <= j
        /\ \A k \in 1..(Len(reachable) - 1) :
              reachable[k].host < reachable[k + 1].host
        /\ SweepOver =>
              /\ Len(ScanProbes) = Len(reachable)
              /\ \A k \in 1..Len(ScanProbes) : ScanProbes[k].settled

\* C7 witness: the sweep has ended, some hosts answered the ping and some not.
C7_PartialSweep ==
    /\ SweepOver
    /\ Len(reachable) >= 1
    /\ Len(reachable) < Len(pinged)
    /\ Len(ScanProbes) = Len(reachable)

\* C8: connectWithFallback attempts the entries in list order, one at a time,
\* each with its own interface and timeout; an entry is attempted only when
\* every earlier one has ended.
C8_InOrderOwnTimeout ==
    prog = "fallback" =>
        /\ Len(attempts) <= Len(connectionMethods)
        /\ \A k \in 1..Len(attempts) :
              /\ attempts[k].name = connectionMethods[k].name
              /\ attempts[k].host = connectionMethods[k].host
              /\ attempts[k].port = connectionMethods[k].port
              /\ attempts[k].timeout = connectionMethods[k].timeout
        /\ \A k \in 1..(Len(attempts) - 1) : Terminal(attempts[k])

\* C8 witness: the last entry is being attempted after the others ended.
C8_ThirdAttempt ==
    /\ prog = "fallback"
    /\ Len(attempts) = Len(connectionMethods)
    /\ Last(attempts).st = "connecting"

Exhausted == Said("All connection methods failed")
AllUnreachable == \A k \in 1..Len(attempts) : Unreachable(attempts[k])
Threw(a) == a.st \in {"connectThrew", "printThrew"}

\* C9 as stated: with every entry unreachable the exhausted outcome comes with
\* as many failure records as the plan has entries.
C9_RecordPerEntry ==
    (prog = "fallback" /\ pc = "done" /\ AllUnreachable) =>
        /\ Exhausted
        /\ CountMsg("failed") = Len(connectionMethods)

\* C9 amended: with every entry unreachable connectWithFallback ends with 'All
\* connection methods failed'; that line is written only after every entry was
\* attempted exactly once, in order; there is one 'Trying' line per entry, and
\* a failure line exactly for each entry whose attempt threw.
C9_ExhaustedAfterAll ==
    (prog = "fallback" /\ pc = "done") =>
        /\ AllUnreachable => Exhausted
        /\ Exhausted =>
              /\ Len(attempts) = Len(connectionMethods)
              /\ \A k \in 1..Len(attempts) :
                    /\ attempts[k].name = connectionMethods[k].name
                    /\ Terminal(attempts[k])
              /\ CountMsg("Trying") = Len(connectionMethods)
              /\ Last(out).msg = "All connection methods failed"
        /\ CountMsg("failed") = Len(SelectSeq(attempts, Threw))
        /\ CountMsg("failed") <= Len(connectionMethods)

\* C9 witness: every entry was unreachable, one by a false answer and one by
\* an exception, and the exhausted outcome was reported.
C9_AllFailed ==
    /\ prog = "fallback" /\ pc = "done" /\ AllUnreachable /\ Exhausted
    /\ \E k \in 1..Len(attempts) : attempts[k].st = "notConnected"
    /\ \E k \in 1..Len(attempts) : attempts[k].st = "connectThrew"

\* the outcome classes of a probe
Classify(e) ==
    CASE e = "connect"      -> "Reachable"
      [] e = "timeout"      -> "TimedOut"
      [] e = "ECONNREFUSED" -> "Refused"
      [] e = "ENOTFOUND"    -> "Unresolved"
      [] OTHER              -> "Error"

\* the value the probe of socket s gives when e is the first event
ValueFor(s, e) == Handle([s EXCEPT !.st = "connecting", !.settled = FALSE], e).value

\* C10 as stated: the result of a probe tells its outcome class: no event of
\* another class gives the same result.
C10_DistinctOutcomes ==
    (Settled /\ ev # "none") =>
        \A e \in Events :
            ValueFor(Last(socks), e) = ProbeValue => Classify(e) = Classify(ev)

\* C10 amended: a probe gives exactly one of two values: true when connect is
\* the first event, false when the timeout or any error is; the kind of
\* failure and its message are not in the result.
C10_TrueIffConnect ==
    Len(socks) > 0 =>
        /\ Last(socks).settled <=> ev # "none"
        /\ Last(socks).settled => (ProbeValue <=> ev = "connect")
        /\ \A k \in 1..Len(socks) : socks[k].value => socks[k].settled

\* C10 witness: a refused connection gave false.
C10_RefusedGivesFalse == Settled /\ ev = "ECONNREFUSED" /\ ~ProbeValue

\* C11: a probe never throws: every probe that got an event has given a
\* value, a refused, unresolved or timed-out attempt gives the value false, and
\* the loop that awaits the probe can go on.
C11_ProbeNeverThrows ==
    /\ \A k \in 1..Len(socks) : socks[k].st = "destroyed" => socks[k].settled
    /\ ev \in ({"timeout"} \cup ErrorCodes) => (Settled /\ ~ProbeValue)
    /\ (pc \in {"m1_wait", "m2_wait", "m3_wait", "s1_wait"} /\ ev # "none")
          => ENABLED (M1Resume \/ M2Resume \/ M3Resume \/ S1Resume)

\* C11 witness: the scan went on to its third candidate after a probe that
\* failed to resolve and one that gave false.
C11_LoopWentOn ==
    /\ prog = "discover" /\ pc = "m1" /\ i = 3
    /\ ev = "ENOTFOUND" /\ ~socks[1].value

WellFormedIPv4(t) ==
    /\ t.kind = "ip"
    /\ Len(t.octets) = 4
    /\ \A k \in 1..Len(t.octets) : t.octets[k] \in 0..255

LiteralCase == prog = "identifier" /\ TypeOf(args) = "ip"

\* C12 as stated: a malformed literal is never passed on as the resolved
\* address: it ends in a failure and no printer is given it.
C12_MalformedRejected ==
    LiteralCase =>
        /\ resolved # <<>> => WellFormedIPv4(resolved[1])
        /\ \A k \in 1..Len(attempts) : WellFormedIPv4(attempts[k].host)
        /\ (pc = "done" /\ ~WellFormedIPv4(Identifier)) => attempts = <<>>

\* C12 amended: an 'ip' identifier is the resolved address unchanged, well
\* formed or not, and the printer is given it.
C12_LiteralUnchanged ==
    (LiteralCase /\ pc # "id") =>
        /\ resolved = << Identifier >>
        /\ Len(attempts) = 1
        /\ attempts[1].host = Identifier

\* C12 witness: a malformed literal is the address of the printer in use.
C12_MalformedPassedOn ==
    /\ LiteralCase /\ pc = "id_wait"
    /\ ~WellFormedIPv4(Identifier)
    /\ attempts[1].host = Identifier

UpperChar(c) ==
    CASE c = "a" -> "A" [] c = "b" -> "B" [] c = "c" -> "C" [] c = "d" -> "D"
      [] OTHER -> c
\* two hardware addresses that differ in the case of their letters at most
SameIgnoringCase(a, b) ==
    /\ Len(a.chars) = Len(b.chars)
    /\ \A k \in 1..Len(a.chars) : UpperChar(a.chars[k]) = UpperChar(b.chars[k])
MacEntries ==
    { k \in 1..Len(child.stdout) :
         /\ child.stdout[k].text = "entry"
         /\ SameIgnoringCase(child.stdout[k].mac, Identifier) }
MacCase == prog = "identifier" /\ TypeOf(args) = "mac" /\ pc \notin {"id", "mac_wait"}

\* C13: connectByMAC gives the ip of an entry of the table whose hardware
\* address is the requested one up to case, and fails exactly when the table
\* has no such entry; then no printer is opened.
C13_MacLookup ==
    MacCase =>
        /\ MacEntries # {} =>
              \E k \in MacEntries :
                  /\ resolved = << child.stdout[k].ip >>
                  /\ \A j \in MacEntries : k <= j
        /\ MacEntries = {} =>
              /\ resolved = <<>> /\ attempts = <<>> /\ pc = "done"
              /\ Said("Connection failed:")

\* C13 witness: an address was found through an entry written in another case.
C13_FoundByOtherCase ==
    /\ MacCase /\ resolved # <<>>
    /\ \A k \in 1..Len(child.stdout) : child.stdout[k].mac # Identifier

HostAnswers ==
    { child.stdout[k].addr : k \in { j \in 1..Len(child.stdout) :
         child.stdout[j].label = "Address" /\ child.stdout[j].about = "answer" } }
HostCase ==
    prog = "identifier" /\ TypeOf(args) = "hostname" /\ pc \notin {"id", "ns_wait"}

\* C14: connectByHostname gives an address the lookup resolved for the host
\* name, and fails when the lookup has no address for it.
C14_ReturnsHostAddress ==
    HostCase =>
        /\ resolved # <<>> => resolved[1] \in HostAnswers
        /\ HostAnswers = {} => resolved = <<>>

\* C15 as stated: every operation ends, whatever its collaborators do.
C15_AlwaysTerminates == <>(pc = "done")

\* C15 amended: every operation ends unless it waits for ever for arp-scan,
\* arp or nslookup, which execAsync runs without a timeout.
C15_TerminatesUnlessChildHangs == <>(pc = "done") \/ <>[]AwaitingChild

\* C15 witness: an operation that awaited a child process has ended.
C15_EndedAfterChild ==
    /\ prog = "identifier" /\ pc = "done" /\ child.ok /\ resolved # <<>>

InFlightCount == Cardinality({ k \in 1..Len(socks) : socks[k].st = "connecting" })
ConnectingCount ==
    Cardinality({ k \in 1..Len(attempts) : attempts[k].st = "connecting" })

\* C16: the probes in flight never exceed the concurrency limit, for every
\* limit of at least 1: the scripts await each probe before the next.
C16_BoundedConcurrency ==
    \A limit \in 1..4 : InFlightCount <= limit /\ ConnectingCount <= limit

\* C16 witness: a probe of a sweep with several candidates is in flight.
C16_ProbeInFlight ==
    /\ prog = "discover" /\ pc = "m2_wait" /\ InFlight
    /\ Len(reachable) >= 2 /\ i = 2

ValidPort(p) == p \in 1..65535
ValidEndpoints ==
    /\ \A k \in 1..Len(socks) : ValidPort(socks[k].port) /\ socks[k].timeout > 0
    /\ \A k \in 1..Len(attempts) :
          ValidPort(attempts[k].port) /\ attempts[k].timeout > 0
    /\ \A k \in 1..Len(pinged) : pinged[k].host \in 0..255
    /\ RangeStart <= RangeEnd

\* C17 as stated: every endpoint probed has a port in 1..65535 and a positive
\* timeout, whatever the environment supplies.
C17_AlwaysValid == ValidEndpoints

\* C17 amended: with the values the scripts hard-code every endpoint is
\* valid; connectByEnvironment uses PRINTER_PORT as it is given, and 9100
\* when it is not set.
C17_ValidUnlessSupplied ==
    /\ (prog # "env" \/ ~env.port.set) => ValidEndpoints
    /\ prog = "env" =>
          \A k \in 1..Len(attempts) :
              /\ attempts[k].port = (IF env.port.set THEN env.port.val ELSE PrinterPort)
              /\ attempts[k].timeout > 0

\* C17 witness: connectByEnvironment attempts a connection to the port the
\* environment names, outside 1..65535.
C17_SuppliedPortUsed ==
    /\ prog = "env" /\ pc = "e_wait"
    /\ env.port.set /\ ~ValidPort(attempts[1].port)

ResolveFailed ==
    /\ prog = "identifier"
    /\ pc \notin {"id", "mac_wait", "ns_wait"}
    /\ resolved = <<>>

\* C18: a failure stays in the attempt it occurs in: no script ends by an
\* exception; after a failing arp-scan and failing pings discoverAndTest goes
\* on to its results; connectByIdentifier ends with 'Connection failed' after
\* a failed resolution, an unknown type or a printer error.
C18_FailuresConfined ==
    /\ pc # "crashed"
    /\ (prog = "discover" /\ Said("arp-scan not available, trying alternative methods..."))
          => (devices = <<>> /\ pc \in {"m3", "first_wait", "done"})
    /\ (prog = "discover" /\ pc = "done") =>
          /\ pinged = SweepHosts
          /\ Said("No thermal printers found on the network") \/ Len(attempts) = 1
    /\ ResolveFailed =>
          (pc = "done" /\ attempts = <<>> /\ Last(out).msg = "Connection failed:")
    /\ (prog = "identifier" /\ pc = "done") =>
          Last(out).msg \in {"Connection failed:", "Connection failed",
                             "Test print completed!"}

\* C18 witness: discoverAndTest has ended after a failed arp-scan and a failed
\* ping.
C18_EndedAfterFailures ==
    /\ prog = "discover" /\ pc = "done"
    /\ Said("arp-scan not available, trying alternative methods...")
    /\ Len(reachable) < Len(pinged)

StatusRequested(a) == a.st \in {"statusRequested", "statusReceived", "executeThrew"}

\* C19: the status is requested only after isPrinterConnected returned true,
\* and in status-robust the printer is created only after the TCP probe gave
\* true; after a failed step nothing more is done.
C19_TestBeforeStatus ==
    /\ prog = "status" =>
          /\ attempts # <<>> => (Len(socks) = 1 /\ socks[1].settled /\ socks[1].value)
          /\ \A k \in 1..Len(attempts) :
                StatusRequested(attempts[k]) => Said("Printer connection test successful!")
          /\ Said("Basic network connectivity failed!") => (attempts = <<>> /\ pc = "done")
          /\ Said("Printer connection test failed!")
                => (pc = "done" /\ ~StatusRequested(attempts[1]))
    /\ prog = "statusjs" =>
          /\ \A k \in 1..Len(attempts) :
                StatusRequested(attempts[k]) => Said("Printer is reachable!")
          /\ Said("Printer is not reachable.")
                => (pc = "done" /\ ~StatusRequested(attempts[1]))

\* C19 witness: a status was received.
C19_StatusReceived ==
    /\ prog \in {"status", "statusjs"}
    /\ attempts # <<>> /\ attempts[1].st = "statusReceived"

\* C20: ethernet-discovery.js does what its usage text says: no argument runs
\* the discovery, a single argument connects by ip, an identifier with a type
\* connects by that type.
C20_UsageAsStated ==
    (prog \in {"cli", "discover", "identifier"} /\ pc # "main") =>
        /\ Len(args) = 0 => prog = "discover"
        /\ Len(args) = 1 => (prog = "identifier" /\ TypeOf(args) = "ip")
        /\ Len(args) >= 2 => prog = "identifier"

\* C21: connectByEnvironment attempts the hostname first when PRINTER_HOSTNAME
\* is set and the ip afterwards when that attempt does not connect; without a
\* hostname it attempts the ip only.
C21_HostnameThenIP ==
    (prog = "env" /\ pc = "done") =>
        /\ attempts[1].host =
              (IF env.hostname.set THEN env.hostname.val ELSE EnvIP(env))
        /\ (env.hostname.set /\ attempts[1].st \in {"notConnected", "connectThrew"})
              => (Len(attempts) = 2 /\ attempts[2].host = EnvIP(env))
        /\ ~env.hostname.set => Len(attempts) = 1

\* C22: the first event on a probe's socket fixes the result: a step changes
\* a socket only if it is the one in flight and not yet settled, and then it
\* settles it with true exactly when the event is connect; a settled socket
\* and the sockets of other probes never change, and the value the caller was
\* given stays the value of the promise.
C22_FirstEventFixes ==
    /\ [](\A k \in 1..Len(foundPrinters) :
             socks[k].settled /\ foundPrinters[k] = socks[k].value)
    /\ [][\A k \in 1..Len(socks) :
             socks'[k] # socks[k] =>
                 /\ k = Len(socks)
                 /\ ~socks[k].settled /\ socks[k].st = "connecting"
                 /\ socks'[k].settled
                 /\ socks'[k].value = (ev' = "connect")]_vars

\* C22 witness: while the second probe is in flight a timeout was emitted on
\* the socket of the first, whose result is still reachable.
C22_LateEventIgnored ==
    /\ prog = "probe" /\ Len(socks) = 2 /\ InFlight
    /\ late = [sock |-> 1, e |-> "timeout"]
    /\ socks[1].value /\ foundPrinters = << TRUE >>

\* the probes of discoverAndTest whose await has resumed
Returned ==
    IF pc \in {"m1_wait", "m2_wait", "m3_wait"} THEN Len(socks) - 1 ELSE Len(socks)
ReachableProbes == SelectSeq(SubSeq(socks, 1, Returned), LAMBDA s : s.value)
MethodRank(m) ==
    CASE m = "common IP" -> 1 [] m = "network scan" -> 2 [] OTHER -> 3

\* C23: in discoverAndTest the list of found printers holds exactly the
\* candidates whose probe returned reachable so far, in probing order; 'No
\* thermal printers found' is reported exactly when no probe was reachable,
\* and the printer client is opened for the first entry only.
C23_FoundFaithful ==
    prog = "discover" =>
        /\ foundPrinters =
              [ k \in 1..Len(ReachableProbes) |->
                  [ip |-> ReachableProbes[k].host, method |-> ReachableProbes[k].method] ]
        /\ \A j, k \in 1..Len(socks) :
              j < k => MethodRank(socks[j].method) <= MethodRank(socks[k].method)
        /\ pc = "done" =>
              (Said("No thermal printers found on the network")
                  <=> \A k \in 1..Len(socks) : ~socks[k].value)
        /\ Len(attempts) <= 1
        /\ attempts # <<>> => attempts[1].host = foundPrinters[1].ip

\* C23 witness: the client is opened for the first of two printers found by
\* different methods, after a probe that was not reachable.
C23_TwoFound ==
    /\ prog = "discover" /\ pc = "first_wait"
    /\ Len(foundPrinters) >= 2
    /\ foundPrinters[1].method = "common IP"
    /\ foundPrinters[2].method = "network scan"
    /\ \E k \in 1..Len(socks) : ~socks[k].value

\* C24: for every status byte each of the six fields has the OK icon exactly
\* when its bit (0x04 .. 0x80) is clear.
C24_IconIffBitClear ==
    (prog = "status" /\ report # <<>>) =>
        \A k \in 1..6 :
            (report[k].icon = "ok") <=> ((status[1] \div (2 ^ (k + 1))) % 2 = 0)

====
